---- MODULE Spec2Model ----
(***************************************************************************)
(* The connection table of sniproxy (src/connection.c): the per-connection *)
(* state machine, the accept path, the dispatch loop of handle_connections *)
(* with its move-to-head list discipline, the client-hello handoff and the *)
(* teardown paths.                                                         *)
(*                                                                         *)
(* A connection is a record.  Besides the fields of struct Connection it   *)
(* carries observation fields that the program does not have and never     *)
(* reads: what the kernel knows about its two sockets (csock, ssock), what *)
(* the two peers have written and received (crecvd, srecvd, to_server,     *)
(* to_client), whether a recv or send was ever made on a socket of it that *)
(* was not open (misused), what happened to it in the current              *)
(* handle_connections call (state0, io, touched, visits) and the calls of  *)
(* the last operation (log, err).                                          *)
(*                                                                         *)
(* fds is what the caller holds between fd_set_connections and             *)
(* handle_connections: the two fd_sets and the max it was given and got.   *)
(***************************************************************************)
EXTENDS Integers, Sequences, FiniteSets, TLC

(* Bounds of the model. *)
MaxConns == 2       \* records linked in the list at once
BufSize == 2        \* capacity of a Buffer, in bytes
MaxLoad == 3        \* linked records plus bytes their peers have written

(* fd_set capacity of the build, scaled down: descriptors 0..FD_SETSIZE-1  *)
(* are valid fd_set indexes.                                               *)
FD_SETSIZE == 2
(* size of the scratch area of handle_connection_client_hello *)
MSS == 1460

NULL == 0
NoArg == 0 - 9

States == {"NEW", "ACCEPTED", "CONNECTED", "SERVER_CLOSED", "CLIENT_CLOSED", "CLOSED"}
Hostnames == {"svc.example"}
(* errno values (Linux); EWOULDBLOCK is EAGAIN there *)
EAGAIN == 11
EWOULDBLOCK == 11
EINTR == 4
ECONNRESET == 104
Errnos == {EAGAIN, ECONNRESET}

VARIABLES connections, iter, op, acted, fds

vars == <<connections, iter, op, acted, fds>>

Min(a, b) == IF a < b THEN a ELSE b
MAX(X, Y) == IF X > Y THEN X ELSE Y

IS_TEMPORARY_SOCKERR(errno) ==
    errno = EAGAIN \/ errno = EWOULDBLOCK \/ errno = EINTR

Range(s) == {s[i] : i \in 1..Len(s)}

(***************************************************************************)
(* The byte streams of the two peers.  The k-th byte a client writes is k, *)
(* the k-th byte an upstream writes is 100 + k, so that a byte names its   *)
(* origin and its position.                                                *)
(***************************************************************************)
ClientByte(k) == k
ServerByte(k) == 100 + k
ClientStream(n) == [k \in 1..n |-> ClientByte(k)]
ServerStream(n) == [k \in 1..n |-> ServerByte(k)]
(* what a peer has written and the proxy has not yet read *)
Pending(stream, read) == SubSeq(stream, read + 1, Len(stream))

(***************************************************************************)
(* Buffer (collaborator): a bounded byte FIFO.                             *)
(***************************************************************************)
buffer_len(buf) == Len(buf)
buffer_room(buf) == BufSize - Len(buf)
buffer_peek(buf, n) == SubSeq(buf, 1, Min(n, Len(buf)))
(* recv(2) into the free space: outcome.n < 0 is a failure with            *)
(* outcome.errno, otherwise up to outcome.n of the bytes the peer has      *)
(* written are appended (0 is end of stream).                              *)
buffer_recv(buf, pending, outcome) ==
    IF outcome.n < 0
    THEN [buffer |-> buf, n |-> 0 - 1]
    ELSE LET k == Min(Min(outcome.n, buffer_room(buf)), Len(pending))
         IN [buffer |-> buf \o SubSeq(pending, 1, k), n |-> k]
(* send(2) from the front: outcome.n < 0 is a failure, otherwise up to     *)
(* outcome.n bytes leave the FIFO and reach the peer.                      *)
buffer_send(buf, outcome) ==
    IF outcome.n < 0
    THEN [buffer |-> buf, n |-> 0 - 1, sent |-> << >>]
    ELSE LET k == Min(outcome.n, Len(buf))
         IN [buffer |-> SubSeq(buf, k + 1, Len(buf)), n |-> k,
             sent |-> SubSeq(buf, 1, k)]
free_buffer(buf) == << >>

(***************************************************************************)
(* The kernel's view of a socket of a record: "none" (never obtained),     *)
(* "open", "closed" (closed once), "bad" (close() on a descriptor the      *)
(* record does not hold open).                                             *)
(***************************************************************************)
close(sock) == IF sock = "open" THEN "closed" ELSE "bad"

(***************************************************************************)
(* The list (TAILQ), head first.  Records are named by their address id.   *)
(***************************************************************************)
Con(q, id) == q[CHOOSE i \in 1..Len(q) : q[i].id = id]
Linked(q, id) == \E i \in 1..Len(q) : q[i].id = id
Put(q, c) == [i \in 1..Len(q) |-> IF q[i].id = c.id THEN c ELSE q[i]]

TAILQ_FIRST(q) == IF Len(q) = 0 THEN NULL ELSE q[1].id
TAILQ_NEXT(q, id) ==
    LET i == CHOOSE j \in 1..Len(q) : q[j].id = id
    IN IF i = Len(q) THEN NULL ELSE q[i + 1].id
TAILQ_REMOVE(q, id) == SelectSeq(q, LAMBDA c : c.id # id)
TAILQ_INSERT_HEAD(q, c) == <<c>> \o q

(***************************************************************************)
(* The record of calls of the running operation: which function ran, its   *)
(* argument (a descriptor, a parser result or a return value), and the     *)
(* state field before and after it.                                        *)
(***************************************************************************)
Call(c, f, a, to) ==
    [c EXCEPT !.log = Append(@, [f |-> f, a |-> a, from |-> c.state, to |-> to]),
              !.state = to]
Note(c, f, a) == Call(c, f, a, c.state)

(* new_connection: calloc'ed, state NEW, two empty buffers, no hostname. *)
new_connection(id) ==
    [id |-> id, state |-> "NEW",
     client |-> [sockfd |-> 0, buffer |-> << >>],
     server |-> [sockfd |-> 0, buffer |-> << >>],
     hostname |-> "",
     csock |-> "none", ssock |-> "none",
     crecvd |-> 0, srecvd |-> 0, to_server |-> << >>, to_client |-> << >>,
     misused |-> FALSE,
     state0 |-> "NEW", io |-> FALSE, touched |-> FALSE, visits |-> 0,
     peeked |-> << >>, err |-> 0, moved |-> FALSE, freed |-> FALSE, log |-> << >>]

(* a close_client_socket that forgets the half-closed state *)
close_client_socket_no_half_close(c) ==
    Call([c EXCEPT !.csock = close(@)], "close_client_socket", c.client.sockfd, "CLOSED")

close_client_socket(c) ==
    Call([c EXCEPT !.csock = close(@)], "close_client_socket", c.client.sockfd,
         IF c.state = "CONNECTED" THEN "CLIENT_CLOSED" ELSE "CLOSED")

(* a close_server_socket that leaves the state as it was *)
close_server_socket_keeps_state(c) ==
    Call([c EXCEPT !.ssock = close(@)], "close_server_socket", c.server.sockfd, c.state)

(* a close_server_socket that always finalizes *)
close_server_socket_always_closed(c) ==
    Call([c EXCEPT !.ssock = close(@)], "close_server_socket", c.server.sockfd, "CLOSED")

close_server_socket(c) ==
    Call([c EXCEPT !.ssock = close(@)], "close_server_socket", c.server.sockfd,
         IF c.state = "CLIENT_CLOSED" THEN "CLOSED" ELSE "SERVER_CLOSED")

(* close_connection, its first if: the client socket, where it is open. *)
close_connection_client(c) ==
    IF c.state = "CONNECTED" \/ c.state = "ACCEPTED" \/ c.state = "SERVER_CLOSED"
    THEN close_client_socket(c) ELSE c

(* close_connection, its second if: the server socket, where it is open. *)
close_connection_server(c) ==
    IF c.state = "CONNECTED" \/ c.state = "CLIENT_CLOSED"
    THEN close_server_socket(c) ELSE c

(* a close_connection that closes the client socket whatever the state *)
close_connection_unguarded(c) ==
    close_connection_server(close_client_socket(Note(c, "close_connection", NoArg)))

close_connection(c) ==
    close_connection_server(close_connection_client(Note(c, "close_connection", NoArg)))

free_connection(c) ==
    [close_connection(Note(c, "free_connection", NoArg))
        EXCEPT !.client.buffer = free_buffer(@),
               !.server.buffer = free_buffer(@),
               !.hostname = "",
               !.freed = TRUE]

(* TAILQ_REMOVE then TAILQ_INSERT_HEAD of the record itself.  While a body *)
(* of handle_connections runs, the record it works on is held apart from   *)
(* the list (Relink puts it back), so the move is noted on the record.     *)
(* a touch that leaves the record where it is *)
move_to_head_of_queue_in_place(con) == [con EXCEPT !.touched = TRUE]

move_to_head_of_queue(con) == [con EXCEPT !.touched = TRUE, !.moved = TRUE]

(***************************************************************************)
(* handle_connection_client_hello: peek, parse, look the upstream up and   *)
(* promote.  parse_result is what the listener's parser returns for the    *)
(* peeked bytes, hostname the name it found, fd what lookup_server_socket  *)
(* returns.                                                                *)
(***************************************************************************)
(* a handoff that leaves an upstream descriptor above the ceiling open *)
client_hello_connected_leaks(con, hostname, fd) ==
    IF con.server.sockfd < 0 THEN close_connection(con)
    ELSE IF con.server.sockfd > FD_SETSIZE
         THEN close_connection(con)
         ELSE Call([con EXCEPT !.hostname = hostname], "promote", fd, "CONNECTED")

(* After lookup_server_socket has answered: the record holds the           *)
(* descriptor.                                                             *)
client_hello_connected(con, hostname, fd) ==
    IF con.server.sockfd < 0 THEN close_connection(con)
    ELSE IF con.server.sockfd > FD_SETSIZE
         THEN close_connection(close_server_socket(con))
         ELSE Call([con EXCEPT !.hostname = hostname], "promote", fd, "CONNECTED")

(* a handoff that gives up on an incomplete request *)
client_hello_parsed_rejects_incomplete(con, parse_result, hostname, fd) ==
    IF parse_result < 0 THEN close_connection(con)
    ELSE client_hello_connected(
             Note([con EXCEPT !.server.sockfd = fd,
                              !.ssock = IF fd >= 0 THEN "open" ELSE @],
                  "lookup_server_socket", fd),
             hostname, fd)

(* After buffer_peek: the parser's answer decides. *)
client_hello_parsed(con, parse_result, hostname, fd) ==
    IF parse_result = 0 - 1 THEN con
    ELSE IF parse_result = 0 - 2 THEN close_connection(con)
    ELSE IF parse_result < 0 - 2 THEN close_connection(con)
    ELSE client_hello_connected(
             Note([con EXCEPT !.server.sockfd = fd,
                              !.ssock = IF fd >= 0 THEN "open" ELSE @],
                  "lookup_server_socket", fd),
             hostname, fd)

(* a handoff that reads the handshake out of the buffer instead of peeking *)
handle_connection_client_hello_consumes(con, parse_result, hostname, fd) ==
    client_hello_parsed(
        [Note(con, "handle_connection_client_hello", parse_result)
            EXCEPT !.peeked = buffer_peek(con.client.buffer, MSS),
                   !.client.buffer = << >>],
        parse_result, hostname, fd)

handle_connection_client_hello(con, parse_result, hostname, fd) ==
    client_hello_parsed(
        [Note(con, "handle_connection_client_hello", parse_result)
            EXCEPT !.peeked = buffer_peek(con.client.buffer, MSS)],
        parse_result, hostname, fd)

(***************************************************************************)
(* The four rx/tx primitives.  The int they return in C is left in the     *)
(* record's err field.  in holds what the environment answers.             *)
(***************************************************************************)
Return(c, f, err) == [Note(c, f, err) EXCEPT !.err = err]
(* what a recv or send came to: the byte count, or minus the errno *)
Result(n, errno) == IF n < 0 THEN 0 - errno ELSE n

(* a handoff that is skipped while no byte has arrived *)
client_rx_hello_needs_bytes(con, in) ==
    IF con.state = "ACCEPTED" /\ con.crecvd > 0
    THEN handle_connection_client_hello(con, in.parse, in.hostname, in.lookup)
    ELSE con

(* The handoff runs on every read that did not fail while ACCEPTED. *)
client_rx_hello(con, in) ==
    IF con.state = "ACCEPTED"
    THEN handle_connection_client_hello(con, in.parse, in.hostname, in.lookup)
    ELSE con

(* handle_connection_client_rx once buffer_recv has returned n. *)
client_rx_received(con, n, in) ==
    IF n < 0 /\ ~IS_TEMPORARY_SOCKERR(in.crx.errno)
    THEN Return(con, "handle_connection_client_rx", 1)
    ELSE IF n = 0
    THEN Return(con, "handle_connection_client_rx", 1)
    ELSE Return(move_to_head_of_queue(client_rx_hello(con, in)),
                "handle_connection_client_rx", 0)

(* handle_connection_server_rx once buffer_recv has returned n. *)
server_rx_received(con, n, errno) ==
    IF n < 0 /\ ~IS_TEMPORARY_SOCKERR(errno)
    THEN Return(con, "handle_connection_server_rx", 1)
    ELSE IF n = 0
    THEN Return(con, "handle_connection_server_rx", 1)
    ELSE Return(move_to_head_of_queue(con), "handle_connection_server_rx", 0)

(* handle_connection_client_tx or _server_tx (f) once buffer_send has      *)
(* returned n.                                                             *)
tx_sent(con, f, n, errno) ==
    IF n < 0 /\ ~IS_TEMPORARY_SOCKERR(errno)
    THEN Return(con, f, 1)
    ELSE Return(move_to_head_of_queue(con), f, 0)

handle_connection_client_rx(con, in) ==
    LET r == buffer_recv(con.client.buffer,
                         Pending(ClientStream(con.crecvd + BufSize), con.crecvd), in.crx)
    IN client_rx_received(
           Note([con EXCEPT !.client.buffer = r.buffer,
                            !.crecvd = @ + MAX(r.n, 0),
                            !.misused = @ \/ con.csock # "open",
                            !.io = TRUE],
                "recv_client", Result(r.n, in.crx.errno)),
           r.n, in)

handle_connection_client_tx(con, in) ==
    LET r == buffer_send(con.server.buffer, in.ctx)
    IN tx_sent(Note([con EXCEPT !.server.buffer = r.buffer,
                                !.to_client = @ \o r.sent,
                                !.misused = @ \/ con.csock # "open",
                                !.io = TRUE],
                    "send_client", Result(r.n, in.ctx.errno)),
               "handle_connection_client_tx", r.n, in.ctx.errno)

(* a server rx that takes end of stream for progress *)
handle_connection_server_rx_ignores_eof(con, in) ==
    LET r == buffer_recv(con.server.buffer,
                         Pending(ServerStream(con.srecvd + BufSize), con.srecvd), in.srx)
    IN tx_sent(Note([con EXCEPT !.server.buffer = r.buffer,
                                !.srecvd = @ + MAX(r.n, 0),
                                !.misused = @ \/ con.ssock # "open",
                                !.io = TRUE],
                    "recv_server", Result(r.n, in.srx.errno)),
               "handle_connection_server_rx", r.n, in.srx.errno)

handle_connection_server_rx(con, in) ==
    LET r == buffer_recv(con.server.buffer,
                         Pending(ServerStream(con.srecvd + BufSize), con.srecvd), in.srx)
    IN server_rx_received(
           Note([con EXCEPT !.server.buffer = r.buffer,
                            !.srecvd = @ + MAX(r.n, 0),
                            !.misused = @ \/ con.ssock # "open",
                            !.io = TRUE],
                "recv_server", Result(r.n, in.srx.errno)),
           r.n, in.srx.errno)

(* a server tx that sends the wrong buffer *)
handle_connection_server_tx_wrong_buffer(con, in) ==
    LET r == buffer_send(con.server.buffer, in.stx)
    IN tx_sent(Note([con EXCEPT !.server.buffer = r.buffer,
                                !.to_server = @ \o r.sent,
                                !.misused = @ \/ con.ssock # "open",
                                !.io = TRUE],
                    "send_server", Result(r.n, in.stx.errno)),
               "handle_connection_server_tx", r.n, in.stx.errno)

handle_connection_server_tx(con, in) ==
    LET r == buffer_send(con.client.buffer, in.stx)
    IN tx_sent(Note([con EXCEPT !.client.buffer = r.buffer,
                                !.to_server = @ \o r.sent,
                                !.misused = @ \/ con.ssock # "open",
                                !.io = TRUE],
                    "send_server", Result(r.n, in.stx.errno)),
               "handle_connection_server_tx", r.n, in.stx.errno)

(***************************************************************************)
(* handle_connections: the statements of the switch, then its arms.        *)
(* in.srd, in.swr, in.crd and in.cwr are what FD_ISSET answers for the     *)
(* record's server and client descriptor in rfds and wfds; err is the      *)
(* local of the loop body, held in the record.                             *)
(***************************************************************************)
server_rx_if_set(c, in) ==
    IF in.srd /\ buffer_room(c.server.buffer) > 0
    THEN handle_connection_server_rx(c, in) ELSE c

server_tx_if_set(c, in) ==
    IF in.swr /\ buffer_len(c.client.buffer) > 0
    THEN handle_connection_server_tx(c, in) ELSE c

server_tx_if_no_err(c, in) == IF c.err = 0 THEN server_tx_if_set(c, in) ELSE c

client_rx_if_set(c, in) ==
    IF in.crd /\ buffer_room(c.client.buffer) > 0
    THEN handle_connection_client_rx(c, in) ELSE c

client_tx_if_set(c, in) ==
    IF in.cwr /\ buffer_len(c.server.buffer) > 0
    THEN handle_connection_client_tx(c, in) ELSE c

client_tx_if_no_err(c, in) == IF c.err = 0 THEN client_tx_if_set(c, in) ELSE c

server_close_if_err(c) == IF c.err # 0 THEN close_server_socket(c) ELSE c
client_close_if_err(c) == IF c.err # 0 THEN close_client_socket(c) ELSE c

client_close_if_drained(c) ==
    IF c.err # 0 \/ buffer_len(c.server.buffer) = 0
    THEN close_client_socket(c) ELSE c

server_close_if_drained(c) ==
    IF c.err # 0 \/ buffer_len(c.client.buffer) = 0
    THEN close_server_socket(c) ELSE c

reset_err(c) == [c EXCEPT !.err = 0]

(* a CONNECTED arm that tears the whole connection down on a server error *)
case_CONNECTED_closes_both(iter_, in) ==
    LET c2 == server_tx_if_no_err(server_rx_if_set(iter_, in), in)
    IN reset_err(IF c2.err # 0 THEN close_connection(c2) ELSE c2)

case_CONNECTED(iter_, in) ==
    reset_err(server_close_if_err(server_tx_if_no_err(server_rx_if_set(iter_, in), in)))

case_ACCEPTED(iter_, in) ==
    client_close_if_err(client_tx_if_no_err(client_rx_if_set(iter_, in), in))

(* a SERVER_CLOSED arm that waits for the other buffer *)
case_SERVER_CLOSED_other_buffer(iter_, in) ==
    LET c1 == client_tx_if_set(iter_, in)
    IN IF c1.err # 0 \/ buffer_len(c1.client.buffer) = 0
       THEN close_client_socket(c1) ELSE c1

case_SERVER_CLOSED(iter_, in) == client_close_if_drained(client_tx_if_set(iter_, in))

case_CLIENT_CLOSED(iter_, in) == server_close_if_drained(server_tx_if_set(iter_, in))

(* What stays in the list between operations: the record without the      *)
(* call record of the operation that just ran.                             *)
Strip(c) == [c EXCEPT !.log = << >>, !.err = 0, !.moved = FALSE, !.peeked = << >>]

(* The record goes back to the list: at the head if the body moved it,     *)
(* in its place otherwise.                                                 *)
Relink(q, c) ==
    IF c.moved
    THEN TAILQ_INSERT_HEAD(TAILQ_REMOVE(q, c.id), Strip(c))
    ELSE Put(q, Strip(c))

Out(q, c) == [connections |-> Relink(q, c), acted |-> <<c>>]

(* a CLOSED arm that leaves the record linked *)
case_CLOSED_keeps(q, iter_) == [connections |-> q, acted |-> <<iter_>>]

case_CLOSED(q, iter_) ==
    [connections |-> TAILQ_REMOVE(q, iter_.id), acted |-> <<free_connection(iter_)>>]

(* The loop has come to this record once more. *)
Visit(c) == [c EXCEPT !.visits = @ + 1]

(* a switch that has no arm for CLOSED *)
switch_no_CLOSED_arm(q, iter_, in) ==
    CASE iter_.state = "CONNECTED" -> Out(q, case_ACCEPTED(case_CONNECTED(iter_, in), in))
      [] iter_.state = "ACCEPTED" -> Out(q, case_ACCEPTED(iter_, in))
      [] iter_.state = "SERVER_CLOSED" -> Out(q, case_SERVER_CLOSED(iter_, in))
      [] iter_.state = "CLIENT_CLOSED" -> Out(q, case_CLIENT_CLOSED(iter_, in))
      [] OTHER -> Out(q, iter_)

(* The switch on iter->state. *)
switch(q, iter_, in) ==
    CASE iter_.state = "CONNECTED" -> Out(q, case_ACCEPTED(case_CONNECTED(iter_, in), in))
      [] iter_.state = "ACCEPTED" -> Out(q, case_ACCEPTED(iter_, in))
      [] iter_.state = "SERVER_CLOSED" -> Out(q, case_SERVER_CLOSED(iter_, in))
      [] iter_.state = "CLIENT_CLOSED" -> Out(q, case_CLIENT_CLOSED(iter_, in))
      [] iter_.state = "CLOSED" -> case_CLOSED(q, iter_)
      [] OTHER -> Out(q, iter_)

(* the successor as plain TAILQ_FOREACH reads it, from the record after a  *)
(* body that moved it to the head                                          *)
TAILQ_FOREACH_tmp(q, id) ==
    IF TAILQ_FIRST(q) = id THEN TAILQ_NEXT(q, id) ELSE TAILQ_FIRST(q)

(* TAILQ_FOREACH_SAFE reads tmp, the successor of the record, before the   *)
(* body runs on it.                                                        *)
TAILQ_FOREACH_SAFE_tmp(q, id) == TAILQ_NEXT(q, id)

(* One iteration of TAILQ_FOREACH_SAFE over the record iter: err = 0 and   *)
(* the switch.                                                             *)
handle_connections_body(q, id, in) == switch(q, reset_err(Visit(Con(q, id))), in)

(***************************************************************************)
(* fd_set_connections: the arms of its switch work on s, the two fd_sets   *)
(* and max.  An fd_set is the set of descriptors whose bit is set.         *)
(***************************************************************************)
FD_SET(fd, fdset) == fdset \cup {fd}

fd_set_CONNECTED(iter_, s) ==
    [s EXCEPT !.rfds = IF buffer_room(iter_.server.buffer) > 0
                       THEN FD_SET(iter_.server.sockfd, @) ELSE @,
              !.wfds = IF buffer_len(iter_.client.buffer) > 0
                       THEN FD_SET(iter_.server.sockfd, @) ELSE @,
              !.max = MAX(@, iter_.server.sockfd)]

fd_set_ACCEPTED(iter_, s) ==
    [s EXCEPT !.rfds = IF buffer_room(iter_.client.buffer) > 0
                       THEN FD_SET(iter_.client.sockfd, @) ELSE @,
              !.wfds = IF buffer_len(iter_.server.buffer) > 0
                       THEN FD_SET(iter_.client.sockfd, @) ELSE @,
              !.max = MAX(@, iter_.client.sockfd)]

(* a SERVER_CLOSED arm that registers only while bytes are owed *)
fd_set_SERVER_CLOSED_if_owed(iter_, s) ==
    [s EXCEPT !.wfds = IF buffer_len(iter_.server.buffer) > 0
                       THEN FD_SET(iter_.client.sockfd, @) ELSE @,
              !.max = MAX(@, iter_.client.sockfd)]

fd_set_SERVER_CLOSED(iter_, s) ==
    [s EXCEPT !.wfds = FD_SET(iter_.client.sockfd, @),
              !.max = MAX(@, iter_.client.sockfd)]

fd_set_CLIENT_CLOSED(iter_, s) ==
    [s EXCEPT !.wfds = FD_SET(iter_.server.sockfd, @),
              !.max = MAX(@, iter_.server.sockfd)]

fd_set_switch(iter_, s) ==
    CASE iter_.state = "CONNECTED" -> fd_set_ACCEPTED(iter_, fd_set_CONNECTED(iter_, s))
      [] iter_.state = "ACCEPTED" -> fd_set_ACCEPTED(iter_, s)
      [] iter_.state = "SERVER_CLOSED" -> fd_set_SERVER_CLOSED(iter_, s)
      [] iter_.state = "CLIENT_CLOSED" -> fd_set_CLIENT_CLOSED(iter_, s)
      [] iter_.state = "CLOSED" -> s
      [] OTHER -> s

(* TAILQ_FOREACH from the i-th record of q on. *)
RECURSIVE fd_set_foreach(_, _, _)
fd_set_foreach(q, i, s) ==
    IF i > Len(q) THEN s ELSE fd_set_foreach(q, i + 1, fd_set_switch(q[i], s))

fd_set_connections(q, rfds, wfds, max) ==
    fd_set_foreach(q, 1, [rfds |-> rfds, wfds |-> wfds, max |-> max])

(* an accept_connection without the ceiling check *)
accept_connection_no_ceiling(q, id, alloc, fd) ==
    IF ~alloc THEN [connections |-> q, acted |-> << >>]
    ELSE LET c == Note([new_connection(id) EXCEPT
                            !.client.sockfd = fd,
                            !.csock = IF fd >= 0 THEN "open" ELSE @],
                       "accept", fd)
         IN IF c.client.sockfd < 0
            THEN [connections |-> q, acted |-> <<free_connection(c)>>]
            ELSE LET c1 == Call(c, "accept_connection", fd, "ACCEPTED")
                 IN [connections |-> TAILQ_INSERT_HEAD(q, Strip(c1)),
                     acted |-> <<c1>>]

(* accept_connection: alloc is whether new_connection succeeds, fd what    *)
(* accept(2) returns, id the address of the new record.                    *)
accept_connection(q, id, alloc, fd) ==
    IF ~alloc THEN [connections |-> q, acted |-> << >>]
    ELSE LET c == Note([new_connection(id) EXCEPT
                            !.client.sockfd = fd,
                            !.csock = IF fd >= 0 THEN "open" ELSE @],
                       "accept", fd)
         IN IF c.client.sockfd < 0
            THEN [connections |-> q, acted |-> <<free_connection(c)>>]
            ELSE IF c.client.sockfd > FD_SETSIZE
            THEN [connections |-> q,
                  acted |-> <<free_connection(close_client_socket(c))>>]
            ELSE LET c1 == Call(c, "accept_connection", fd, "ACCEPTED")
                 IN [connections |-> TAILQ_INSERT_HEAD(q, Strip(c1)),
                     acted |-> <<c1>>]

(* free_connections: unlink and free from the head until the list is empty *)
free_connections(q) ==
    [connections |-> << >>,
     acted |-> [i \in 1..Len(q) |-> free_connection(q[i])]]

(***************************************************************************)
(* The environment: descriptors the kernel hands out, outcomes of recv and *)
(* send, answers of the listener's parser.                                 *)
(***************************************************************************)
OpenFds(q) ==
    {q[i].client.sockfd : i \in {j \in 1..Len(q) : q[j].csock = "open"}}
    \cup {q[i].server.sockfd : i \in {j \in 1..Len(q) : q[j].ssock = "open"}}

(* What accept(2) or lookup_server_socket can return: a failure, the       *)
(* lowest unused descriptor, or one above the fd_set capacity (a process   *)
(* with many other descriptors open).                                      *)
FreshFds(q) ==
    {0 - 1, FD_SETSIZE + 1,
     CHOOSE f \in 0..(2 * MaxConns) :
        f \notin OpenFds(q) /\ \A g \in 0..(f - 1) : g \in OpenFds(q)}

(* What the caller passes as max: the highest descriptor of its listeners, *)
(* or -1 when it has none in the sets.                                     *)
ListenerMax == {0 - 1, 0}

(* The sets of the caller before fd_set_connections fills them (FD_ZERO),  *)
(* and after handle_connections has used them.                             *)
NoFds == [rfds |-> {}, wfds |-> {}, max |-> 0 - 1, max_in |-> 0 - 1, set |-> FALSE]

(* What FD_ISSET can answer for fd in the set that select(2) has left of   *)
(* fdset: a descriptor that was put in may be ready or not, one that was   *)
(* not is not; for a descriptor that is no index of an fd_set the bit      *)
(* tested lies outside the set and holds anything.                         *)
FD_ISSET(fd, fdset) ==
    IF fd \in fdset \/ fd >= FD_SETSIZE THEN BOOLEAN ELSE {FALSE}

NoIO == [n |-> 0, errno |-> 0]
Failures == {[n |-> 0 - 1, errno |-> e] : e \in Errnos}
RxOutcomes(room, avail) ==
    Failures \cup {[n |-> k, errno |-> 0] : k \in 0..Min(room, avail)}
TxOutcomes(len) == Failures \cup {[n |-> k, errno |-> 0] : k \in 1..len}
RxFails(o) == o.n = 0 \/ (o.n < 0 /\ ~IS_TEMPORARY_SOCKERR(o.errno))
ParseResults == {0 - 3, 0 - 2, 0 - 1, 0}

RECURSIVE Load(_)
Load(q) ==
    IF Len(q) = 0 THEN 0 ELSE 1 + q[1].crecvd + q[1].srecvd + Load(Tail(q))

NewId(q) == CHOOSE id \in 1..MaxConns : ~Linked(q, id) /\ \A j \in 1..(id - 1) : Linked(q, j)

(* At the start of an operation: nothing has happened to any record in it  *)
(* yet.                                                                    *)
StartTick(q) ==
    [i \in 1..Len(q) |-> [q[i] EXCEPT !.state0 = q[i].state, !.io = FALSE,
                                      !.touched = FALSE, !.visits = 0]]

(* An operation leaves the list as r.connections and its call records as  *)
(* r.acted.                                                                *)
Returns(r) ==
    /\ connections' = r.connections
    /\ acted' = r.acted

Init ==
    /\ connections = << >>
    /\ iter = NULL
    /\ op = "init_connections"
    /\ acted = << >>
    /\ fds = NoFds

(* fd_set_connections, called on cleared sets before select(2). *)
FdSetConnections ==
    /\ iter = NULL
    /\ ~fds.set
    /\ \E max \in ListenerMax :
          LET r == fd_set_connections(connections, {}, {}, max)
          IN fds' = [rfds |-> r.rfds, wfds |-> r.wfds, max |-> r.max,
                     max_in |-> max, set |-> TRUE]
    /\ op' = "fd_set_connections"
    /\ acted' = << >>
    /\ UNCHANGED <<connections, iter>>

AcceptConnection ==
    /\ iter = NULL
    /\ Len(connections) < MaxConns
    /\ Load(connections) < MaxLoad
    /\ \E alloc \in BOOLEAN :
       \E fd \in (IF alloc THEN FreshFds(connections) ELSE {0 - 1}) :
          Returns(accept_connection(StartTick(connections), NewId(connections),
                                    alloc, fd))
    /\ op' = "accept_connection"
    /\ iter' = NULL
    /\ UNCHANGED fds

FreeConnections ==
    /\ iter = NULL
    /\ Len(connections) > 0
    /\ Returns(free_connections(StartTick(connections)))
    /\ op' = "free_connections"
    /\ iter' = NULL
    /\ UNCHANGED fds

(* The loop body on record id of list q, for every answer of the           *)
(* environment that the body reads.                                        *)
Dispatch(q, id) ==
    LET c == Con(q, id)
        live == c.state = "CONNECTED" \/ c.state = "ACCEPTED"
        avail == MaxLoad - Load(q)
    IN
    \E srd \in (IF c.state = "CONNECTED" /\ buffer_room(c.server.buffer) > 0
                THEN FD_ISSET(c.server.sockfd, fds.rfds) ELSE {FALSE}) :
    \E srx \in (IF srd THEN RxOutcomes(buffer_room(c.server.buffer), avail)
                ELSE {NoIO}) :
    \E swr \in (IF (c.state = "CONNECTED" \/ c.state = "CLIENT_CLOSED")
                   /\ buffer_len(c.client.buffer) > 0
                   /\ ~(srd /\ RxFails(srx))
                THEN FD_ISSET(c.server.sockfd, fds.wfds) ELSE {FALSE}) :
    \E stx \in (IF swr THEN TxOutcomes(buffer_len(c.client.buffer)) ELSE {NoIO}) :
    \E crd \in (IF live /\ buffer_room(c.client.buffer) + MAX(stx.n, 0) > 0
                THEN FD_ISSET(c.client.sockfd, fds.rfds) ELSE {FALSE}) :
    \E crx \in (IF crd THEN RxOutcomes(buffer_room(c.client.buffer) + MAX(stx.n, 0),
                                       avail - MAX(srx.n, 0))
                ELSE {NoIO}) :
    \E parse \in (IF c.state = "ACCEPTED" /\ crd /\ ~RxFails(crx)
                  THEN ParseResults ELSE {0 - 1}) :
    \E hostname \in (IF parse >= 0 THEN Hostnames ELSE {""}) :
    \E lookup \in (IF parse >= 0 THEN FreshFds(q) ELSE {0 - 1}) :
    \E cwr \in (IF (live /\ ~(crd /\ RxFails(crx))
                         /\ buffer_len(c.server.buffer) + MAX(srx.n, 0) > 0)
                   \/ (c.state = "SERVER_CLOSED" /\ buffer_len(c.server.buffer) > 0)
                THEN FD_ISSET(c.client.sockfd, fds.wfds) ELSE {FALSE}) :
    \E ctx \in (IF cwr THEN TxOutcomes(buffer_len(c.server.buffer) + MAX(srx.n, 0))
                ELSE {NoIO}) :
        LET in == [srd |-> srd, srx |-> srx, swr |-> swr, stx |-> stx,
                   crd |-> crd, crx |-> crx, cwr |-> cwr, ctx |-> ctx,
                   parse |-> parse, hostname |-> hostname, lookup |-> lookup]
        IN /\ Returns(handle_connections_body(q, id, in))
           /\ iter' = TAILQ_FOREACH_SAFE_tmp(q, id)
           /\ op' = "handle_connections"
           /\ fds' = IF TAILQ_FOREACH_SAFE_tmp(q, id) = NULL THEN NoFds ELSE fds

(* handle_connections, entered with the sets that fd_set_connections       *)
(* filled and select(2) reduced: the loop starts at TAILQ_FIRST.  When the *)
(* loop is through, the caller has no more use for the sets.               *)
HandleConnectionsFirst ==
    /\ iter = NULL
    /\ fds.set
    /\ IF Len(connections) = 0
       THEN /\ op' = "handle_connections"
            /\ acted' = << >>
            /\ fds' = NoFds
            /\ UNCHANGED <<connections, iter>>
       ELSE Dispatch(StartTick(connections), TAILQ_FIRST(connections))

(* handle_connections, continued: the loop goes on at tmp, the successor   *)
(* that was read before the previous body ran.                             *)
HandleConnectionsNext ==
    /\ iter # NULL
    /\ Dispatch(connections, iter)

Next ==
    \/ FdSetConnections
    \/ AcceptConnection
    \/ HandleConnectionsFirst
    \/ HandleConnectionsNext
    \/ FreeConnections

Spec == Init /\ [][Next]_vars

(***************************************************************************)
(* Properties.                                                             *)
(***************************************************************************)
Recs == Range(connections)
Acts == Range(acted)
Returned(o) == op = o /\ iter = NULL
Ran(c, f) == \E i \in 1..Len(c.log) : c.log[i].f = f
Did(c, f, a) == \E i \in 1..Len(c.log) : c.log[i].f = f /\ c.log[i].a = a
ClientOpenStates == {"ACCEPTED", "CONNECTED", "SERVER_CLOSED"}
ServerOpenStates == {"CONNECTED", "CLIENT_CLOSED"}

(* C1: after accept_connection and after every handle_connections call,    *)
(* for every record in the list, the client socket is open iff the state   *)
(* is ACCEPTED, CONNECTED or SERVER_CLOSED, and the server socket is open  *)
(* iff the state is CONNECTED or CLIENT_CLOSED.                            *)
C1_SocketsMatchState ==
    (Returned("accept_connection") \/ Returned("handle_connections")) =>
        \A c \in Recs :
            /\ (c.csock = "open") <=> (c.state \in ClientOpenStates)
            /\ (c.ssock = "open") <=> (c.state \in ServerOpenStates)

C1_Witness ==
    /\ Returned("handle_connections")
    /\ \E c \in Recs : c.state = "CLIENT_CLOSED" /\ c.csock = "closed" /\ c.ssock = "open"
    /\ \E c \in Recs : c.state = "ACCEPTED"

(* C2, as claimed: when handle_connections returns, no record in the list  *)
(* has state CLOSED.                                                       *)
C2_NoClosedWhenReturned ==
    Returned("handle_connections") => \A c \in Recs : c.state # "CLOSED"

(* C2, amended: handle_connections frees exactly the records that were     *)
(* CLOSED when the call started: when it returns none of those is left in  *)
(* the list, and a record it freed was CLOSED at the start; a record that  *)
(* is finalized to CLOSED during the call stays linked, in state CLOSED.   *)
C2_ReapsClosedAtStart ==
    op = "handle_connections" =>
        /\ \A a \in Acts : a.freed <=> a.state0 = "CLOSED"
        /\ \A a \in Acts : ~a.freed => \E c \in Recs : c.id = a.id
        /\ iter = NULL => \A c \in Recs : c.state0 # "CLOSED"

C2_Witness ==
    /\ Returned("handle_connections")
    /\ \E c \in Recs : c.state = "CLOSED" /\ c.state0 = "ACCEPTED"
    /\ \E a \in Acts : a.freed

(* C3: every socket the proxy obtains is closed exactly once: close() is   *)
(* never called on a socket that is not open (twice, or never opened), and *)
(* no record is freed with a socket still open.                            *)
C3_ClosedExactlyOnce ==
    /\ \A c \in Recs \cup Acts : c.csock # "bad" /\ c.ssock # "bad"
    /\ \A a \in Acts : a.freed => a.csock # "open" /\ a.ssock # "open"

C3_Witness ==
    \E a \in Acts :
        /\ a.freed
        /\ a.state0 = "CLOSED"
        /\ a.csock = "closed" /\ a.ssock = "closed"
        /\ Ran(a, "close_connection")
        /\ ~Ran(a, "close_client_socket") /\ ~Ran(a, "close_server_socket")

(* C4, as claimed: up to and including the reaping of the connection every *)
(* received byte is in its buffer or has been sent once to the other peer. *)
Conserved(c) ==
    /\ c.to_server \o c.client.buffer = ClientStream(c.crecvd)
    /\ c.to_client \o c.server.buffer = ServerStream(c.srecvd)

C4_ConservedThroughReaping == \A c \in Recs \cup Acts : Conserved(c)

(* C4, amended: while the record exists (linked, or just worked on and not *)
(* freed) the bytes sent to the server followed by client.buffer are       *)
(* exactly the bytes received from the client, in order, and the same for  *)
(* the other direction; bytes still buffered when the record is freed are  *)
(* dropped unsent.                                                         *)
C4_ConservedWhileLinked ==
    \A c \in Recs \cup {a \in Acts : ~a.freed} : Conserved(c)

C4_Witness ==
    \E c \in Recs :
        /\ Len(c.to_server) = 1 /\ Len(c.client.buffer) = 1
        /\ c.state = "CONNECTED"

(* C5, as claimed: every change of the state field is one of the seven     *)
(* edges of the lifecycle.                                                 *)
Lifecycle ==
    {<<"NEW", "ACCEPTED">>, <<"ACCEPTED", "CONNECTED">>, <<"ACCEPTED", "CLOSED">>,
     <<"CONNECTED", "CLIENT_CLOSED">>, <<"CONNECTED", "SERVER_CLOSED">>,
     <<"SERVER_CLOSED", "CLOSED">>, <<"CLIENT_CLOSED", "CLOSED">>}
Edge(e) == <<e.from, e.to>>

C5_OnlyLifecycleEdges ==
    \A a \in Acts : \A i \in 1..Len(a.log) :
        a.log[i].from # a.log[i].to => Edge(a.log[i]) \in Lifecycle

(* C5, amended: every change of the state field is one of the seven edges, *)
(* or NEW->CLOSED made by close_client_socket on the unlinked record of an *)
(* accept whose descriptor is above the ceiling, or ACCEPTED->SERVER_CLOSED *)
(* made by close_server_socket on an upstream descriptor above the ceiling *)
(* and followed at once by SERVER_CLOSED->CLOSED; the state of a record    *)
(* kept in the list changes only while an operation works on it, and       *)
(* CLOSED is never left.                                                   *)
C5_LifecycleWithCeilingEdges ==
    /\ \A a \in Acts : \A i \in 1..Len(a.log) :
        LET e == a.log[i]
        IN e.from # e.to =>
            \/ Edge(e) \in Lifecycle
            \/ /\ Edge(e) = <<"NEW", "CLOSED">>
               /\ e.f = "close_client_socket" /\ e.a > FD_SETSIZE
               /\ op = "accept_connection" /\ a.freed
            \/ /\ Edge(e) = <<"ACCEPTED", "SERVER_CLOSED">>
               /\ e.f = "close_server_socket" /\ e.a > FD_SETSIZE
               /\ i + 2 <= Len(a.log)
               /\ a.log[i + 2].f = "close_client_socket"
               /\ Edge(a.log[i + 2]) = <<"SERVER_CLOSED", "CLOSED">>
    /\ \A a \in Acts : \A i \in 1..Len(a.log) :
        /\ i < Len(a.log) => a.log[i + 1].from = a.log[i].to
        /\ i = Len(a.log) => a.state = a.log[i].to
    /\ \A a \in Acts : op = "handle_connections" /\ Len(a.log) > 0
                        => a.log[1].from = a.state0

C5_Witness ==
    \E a \in Acts : \E i \in 1..Len(a.log) :
        Edge(a.log[i]) = <<"ACCEPTED", "SERVER_CLOSED">>

(* C6: in the dispatch of a CONNECTED record the server socket is closed   *)
(* iff a server-side recv or send failed hard (or the recv returned 0),    *)
(* and the client socket is closed iff a client-side one did; a transient  *)
(* error closes nothing.  Afterwards the remaining socket is closed only   *)
(* when its outbound buffer is empty or its own send fails.                *)
Temporary == {0 - EAGAIN, 0 - EWOULDBLOCK, 0 - EINTR}
HardFailure(c, f) ==
    \E i \in 1..Len(c.log) :
        c.log[i].f = f /\ c.log[i].a < 0 /\ c.log[i].a \notin Temporary
ServerFailed(c) ==
    Did(c, "recv_server", 0) \/ HardFailure(c, "recv_server")
        \/ HardFailure(c, "send_server")
ClientFailed(c) ==
    Did(c, "recv_client", 0) \/ HardFailure(c, "recv_client")
        \/ HardFailure(c, "send_client")

C6_ErrorsStayOnTheirSide ==
    op = "handle_connections" =>
        \A a \in Acts :
            /\ a.state0 = "CONNECTED" =>
                /\ Ran(a, "close_server_socket") <=> ServerFailed(a)
                /\ Ran(a, "close_client_socket") <=> ClientFailed(a)
            /\ a.state0 = "SERVER_CLOSED" =>
                /\ ~Ran(a, "close_server_socket")
                /\ Ran(a, "close_client_socket")
                       <=> (ClientFailed(a) \/ buffer_len(a.server.buffer) = 0)
            /\ a.state0 = "CLIENT_CLOSED" =>
                /\ ~Ran(a, "close_client_socket")
                /\ Ran(a, "close_server_socket")
                       <=> (ServerFailed(a) \/ buffer_len(a.client.buffer) = 0)

C6_Witness ==
    /\ op = "handle_connections"
    /\ \E a \in Acts :
        /\ a.state0 = "CONNECTED"
        /\ ServerFailed(a) /\ ~ClientFailed(a)
        /\ Did(a, "recv_client", 0 - EAGAIN)
        /\ a.state = "SERVER_CLOSED" /\ a.csock = "open" /\ a.ssock = "closed"

(* The record that the step just taken dispatched. *)
Stepped(id) == op' = "handle_connections" /\ Len(acted') = 1 /\ acted'[1].id = id
Ids == 1..MaxConns
HalfClosed(id, st) == Linked(connections, id) /\ Con(connections, id).state = st

C8_UpstreamCloseGivesClientClosed ==
    op = "handle_connections" =>
        \A a \in Acts :
            (a.state0 = "CONNECTED" /\ Did(a, "recv_server", 0)
                /\ buffer_len(a.server.buffer) > 0)
            => \E i \in 1..Len(a.log) : a.log[i].to = "CLIENT_CLOSED"

(* C8, amended: when the upstream closes on a CONNECTED record the server  *)
(* socket is closed and the state becomes SERVER_CLOSED (not               *)
(* CLIENT_CLOSED); from SERVER_CLOSED the state becomes CLOSED, short of a *)
(* failure on the client socket, only in a dispatch after which            *)
(* server.buffer is empty and everything received from the upstream has    *)
(* been delivered to the client, in order.                                 *)
C8_UpstreamCloseDrains ==
    [][/\ op' = "handle_connections" =>
            \A i \in 1..Len(acted') :
                LET a == acted'[i]
                IN a.state0 = "CONNECTED" /\ Did(a, "recv_server", 0) =>
                    /\ \E k \in 1..Len(a.log) :
                          /\ a.log[k].f = "close_server_socket"
                          /\ Edge(a.log[k]) = <<"CONNECTED", "SERVER_CLOSED">>
                    /\ a.ssock = "closed"
                    /\ a.state = IF ClientFailed(a) THEN "CLOSED" ELSE "SERVER_CLOSED"
       /\ \A id \in Ids :
            (HalfClosed(id, "SERVER_CLOSED") /\ Linked(connections', id)
                /\ Con(connections', id).state = "CLOSED"
                /\ ~ClientFailed(acted'[1]))
            => LET d == Con(connections', id)
               IN /\ d.server.buffer = << >>
                  /\ d.to_client = ServerStream(d.srecvd)]_vars

C8_Witness ==
    /\ op = "handle_connections"
    /\ \E a \in Acts :
        /\ a.state0 = "SERVER_CLOSED" /\ a.state = "CLOSED"
        /\ ~ClientFailed(a)
        /\ Len(a.to_client) = 2 /\ a.srecvd = 2
        /\ Did(a, "send_client", 1)

(* C9, as claimed: at the end of a handle_connections call no record       *)
(* without an rx or tx dispatched in that call precedes a record with one. *)
C9_DispatchedLeadTheList ==
    Returned("handle_connections") =>
        \A i, j \in 1..Len(connections) :
            i < j /\ connections[j].io => connections[i].io

(* C9, amended: at the end of a handle_connections call no record without  *)
(* a successful rx or tx (one that returned 0) in that call precedes a     *)
(* record with one; a failed rx or tx does not move the record.  A newly   *)
(* accepted record is at the head, and a dispatch moves its record to the  *)
(* head iff one of its rx/tx returned 0.                                   *)
Succeeded(c) ==
    \E f \in {"handle_connection_client_rx", "handle_connection_client_tx",
              "handle_connection_server_rx", "handle_connection_server_tx"} :
        Did(c, f, 0)

C9_TouchedLeadTheList ==
    /\ Returned("handle_connections") =>
        \A i, j \in 1..Len(connections) :
            i < j /\ connections[j].touched => connections[i].touched
    /\ op = "handle_connections" =>
        \A a \in Acts : ~a.freed =>
            /\ a.touched <=> Succeeded(a)
            /\ a.touched => connections[1].id = a.id
    /\ op = "accept_connection" =>
        \A a \in Acts : ~a.freed =>
            connections[1].id = a.id /\ connections[1].state = "ACCEPTED"

C9_Witness ==
    /\ Returned("handle_connections")
    /\ Len(connections) = 2
    /\ connections[1].id = 1 /\ connections[1].touched
    /\ connections[2].id = 2 /\ ~connections[2].touched /\ connections[2].io
    /\ acted[1].id = 1

(* C10: the client-hello handoff does not consume client.buffer: whatever  *)
(* the parser and the lookup answer, the buffer after the handoff is what  *)
(* the handoff peeked, which is everything the client has written so far;  *)
(* on promotion its length is the number of bytes read, nothing has been   *)
(* sent yet, and what is ever sent on the server socket is the client's    *)
(* bytes from the first one on, in order, each once.                       *)
C10_HandoffKeepsBuffer ==
    /\ op = "handle_connections" =>
        \A a \in Acts : Ran(a, "handle_connection_client_hello") =>
            /\ a.client.buffer = a.peeked
            /\ a.peeked = ClientStream(a.crecvd)
            /\ a.to_server = << >>
            /\ Ran(a, "promote") =>
                  a.state = "CONNECTED" /\ buffer_len(a.client.buffer) = a.crecvd
    /\ \A c \in Recs : c.to_server = ClientStream(Len(c.to_server))

C10_Witness ==
    /\ op = "handle_connections"
    /\ \E a \in Acts :
        /\ Ran(a, "promote")
        /\ a.crecvd = 2 /\ buffer_len(a.client.buffer) = 2
        /\ Did(a, "recv_client", 1)

(* Log entries of function f in the call record of c. *)
Entries(c, f) == {i \in 1..Len(c.log) : c.log[i].f = f}
LookupAnswers(c) == {c.log[i].a : i \in Entries(c, "lookup_server_socket")}

(* C11: every failing outcome of the client-hello handoff on an ACCEPTED   *)
(* connection (parser -2, parser below -2, lookup negative, lookup above   *)
(* the ceiling) leaves the state CLOSED, the client socket closed, no      *)
(* server socket open (one above the ceiling is closed, a failed lookup    *)
(* opens none), no hostname on the record, and no change to CONNECTED.     *)
HandoffFailed(c) ==
    \/ Did(c, "handle_connection_client_hello", 0 - 2)
    \/ Did(c, "handle_connection_client_hello", 0 - 3)
    \/ \E fd \in LookupAnswers(c) : fd < 0 \/ fd > FD_SETSIZE

C11_FailedHandoffCloses ==
    op = "handle_connections" =>
        \A a \in Acts : HandoffFailed(a) =>
            /\ a.state0 = "ACCEPTED" /\ a.state = "CLOSED"
            /\ a.csock = "closed"
            /\ a.ssock # "open"
            /\ (\E fd \in LookupAnswers(a) : fd > FD_SETSIZE) => a.ssock = "closed"
            /\ (\A fd \in LookupAnswers(a) : fd < 0) => a.ssock = "none"
            /\ a.hostname = ""
            /\ \A i \in 1..Len(a.log) : a.log[i].to # "CONNECTED"

C11_Witness ==
    /\ op = "handle_connections"
    /\ \E a \in Acts :
        /\ Did(a, "lookup_server_socket", FD_SETSIZE + 1)
        /\ a.state = "CLOSED" /\ a.ssock = "closed" /\ a.csock = "closed"

(* C12: when accept fails or returns a descriptor above the ceiling,       *)
(* accept_connection links no record (the list keeps its length and        *)
(* order), a descriptor above the ceiling is closed exactly once, and no   *)
(* ACCEPTED record ever holds a descriptor above the ceiling; on success   *)
(* the new record is ACCEPTED at the head of the list, without a server    *)
(* socket.                                                                 *)
IdsOf(q) == [i \in 1..Len(q) |-> q[i].id]

C12_AcceptRejectsCleanly ==
    [][/\ \A i \in 1..Len(connections') :
            connections'[i].state = "ACCEPTED"
                => connections'[i].client.sockfd <= FD_SETSIZE
       /\ op' = "accept_connection" =>
            /\ acted' = << >> => IdsOf(connections') = IdsOf(connections)
            /\ acted' # << >> =>
                LET a == acted'[1]
                IN /\ a.freed =>
                        /\ IdsOf(connections') = IdsOf(connections)
                        /\ a.client.sockfd < 0 \/ a.client.sockfd > FD_SETSIZE
                        /\ a.client.sockfd < 0 =>
                              a.csock = "none" /\ Entries(a, "close_client_socket") = {}
                        /\ a.client.sockfd > FD_SETSIZE =>
                              /\ a.csock = "closed"
                              /\ Cardinality(Entries(a, "close_client_socket")) = 1
                        /\ a.ssock = "none"
                   /\ ~a.freed =>
                        /\ IdsOf(connections') = <<a.id>> \o IdsOf(connections)
                        /\ connections'[1].state = "ACCEPTED"
                        /\ connections'[1].csock = "open"
                        /\ connections'[1].ssock = "none"
                        /\ a.client.sockfd >= 0 /\ a.client.sockfd <= FD_SETSIZE]_vars

C12_Witness ==
    /\ op = "accept_connection"
    /\ Len(connections) = 1
    /\ Len(acted) = 1 /\ acted[1].freed
    /\ acted[1].client.sockfd > FD_SETSIZE /\ acted[1].csock = "closed"

(* C13: when the parser returns -1 the handoff changes nothing: the state  *)
(* stays ACCEPTED, client.buffer is what it was, no server socket is       *)
(* opened, no socket closed, no hostname set, whatever number of reads     *)
(* came before; an ACCEPTED record stays ACCEPTED in a dispatch without a  *)
(* handoff and without a client failure, and the read after which the      *)
(* parser returns a hostname and the lookup a descriptor within the        *)
(* ceiling promotes it to CONNECTED.                                       *)
C13_IncompleteChangesNothing ==
    op = "handle_connections" =>
        \A a \in Acts :
            /\ Did(a, "handle_connection_client_hello", 0 - 1) =>
                /\ a.state0 = "ACCEPTED" /\ a.state = "ACCEPTED"
                /\ a.client.buffer = a.peeked
                /\ a.csock = "open" /\ a.ssock = "none"
                /\ a.server.sockfd = 0 /\ a.hostname = ""
                /\ \A i \in 1..Len(a.log) :
                      a.log[i].f \in {"recv_client", "handle_connection_client_hello",
                                      "handle_connection_client_rx"}
            /\ (a.state0 = "ACCEPTED" /\ ~Ran(a, "handle_connection_client_hello")
                    /\ ~ClientFailed(a) /\ ~a.freed)
                => a.state = "ACCEPTED"
            /\ (Did(a, "handle_connection_client_hello", 0)
                    /\ \E fd \in LookupAnswers(a) : fd >= 0 /\ fd <= FD_SETSIZE)
                => a.state = "CONNECTED" /\ a.hostname \in Hostnames

C13_Witness ==
    /\ op = "handle_connections"
    /\ \E a \in Acts :
        /\ Did(a, "handle_connection_client_hello", 0 - 1)
        /\ Did(a, "recv_client", 1)
        /\ a.crecvd = 2 /\ a.state = "ACCEPTED"

(* C14, as claimed: the handoff runs once per connection, after the first  *)
(* read, which received at least one byte; so when it runs, what that read *)
(* received is all the connection has received.                            *)
C14_HandoffOnlyOnFirstRead ==
    op = "handle_connections" =>
        \A a \in Acts : Ran(a, "handle_connection_client_hello") =>
            /\ a.crecvd >= 1
            /\ Did(a, "recv_client", a.crecvd)

(* C14, amended: the handoff is invoked from handle_connection_client_rx   *)
(* after every read that does not fail (data received, or a temporary      *)
(* error with nothing received) while the state is ACCEPTED, once per such *)
(* read, and nowhere else: again on later reads, also after a read without *)
(* progress, never in another state.                                       *)
GoodRead(e) == e.f = "recv_client" /\ (e.a > 0 \/ e.a \in Temporary)

C14_HandoffAfterEveryGoodRead ==
    op = "handle_connections" =>
        \A a \in Acts :
            /\ \A i \in Entries(a, "handle_connection_client_hello") :
                /\ i > 1
                /\ GoodRead(a.log[i - 1])
                /\ a.log[i].from = "ACCEPTED"
            /\ \A i \in Entries(a, "recv_client") :
                (GoodRead(a.log[i]) /\ a.log[i].to = "ACCEPTED")
                    => /\ i < Len(a.log)
                       /\ a.log[i + 1].f = "handle_connection_client_hello"
            /\ Cardinality(Entries(a, "handle_connection_client_hello"))
                   <= Cardinality(Entries(a, "recv_client"))
            /\ a.state0 \notin {"ACCEPTED", "CONNECTED"}
                   => ~Ran(a, "handle_connection_client_hello")

C14_Witness ==
    /\ op = "handle_connections"
    /\ \E a \in Acts :
        /\ Ran(a, "handle_connection_client_hello")
        /\ Did(a, "recv_client", 0 - EAGAIN)
        /\ a.crecvd = 1

SetMax(S) == CHOOSE x \in S : \A y \in S : y <= x
ClientFdsWhere(P(_)) == {c.client.sockfd : c \in {d \in Recs : P(d)}}
ServerFdsWhere(P(_)) == {c.server.sockfd : c \in {d \in Recs : P(d)}}

WantsClientR(c) ==
    c.state \in {"ACCEPTED", "CONNECTED"} /\ buffer_room(c.client.buffer) > 0
WantsServerR(c) == c.state = "CONNECTED" /\ buffer_room(c.server.buffer) > 0
WantsClientW(c) ==
    \/ c.state = "CONNECTED" /\ buffer_len(c.server.buffer) > 0
    \/ c.state = "SERVER_CLOSED"
WantsServerW(c) ==
    \/ c.state = "CONNECTED" /\ buffer_len(c.client.buffer) > 0
    \/ c.state = "CLIENT_CLOSED"
HasClient(c) == c.state \in ClientOpenStates
HasServer(c) == c.state \in ServerOpenStates

Pos(id) == CHOOSE i \in 1..Len(connections) : connections[i].id = id
Ahead == IF iter = NULL THEN {}
         ELSE {connections[i] : i \in Pos(iter)..Len(connections)}

(* C16: every record that is CLOSED in the list when a handle_connections  *)
(* call starts is unlinked and freed during that call, wherever it stands  *)
(* in the list: while the call runs such a record is either still ahead of *)
(* the loop or freed and out of the list, and when the call returns every  *)
(* CLOSED record left was closed by this very call, so that no record is   *)
(* CLOSED in the list at the end of two calls in a row.                    *)
C16_ClosedReapedByNextCall ==
    op = "handle_connections" =>
        /\ \A c \in Recs : c.state0 = "CLOSED" => c \in Ahead /\ c.visits = 0
        /\ \A a \in Acts : a.state0 = "CLOSED" =>
               a.freed /\ ~Linked(connections, a.id)
        /\ iter = NULL =>
               \A c \in Recs : c.state = "CLOSED" =>
                   c.state0 # "CLOSED" /\ c.visits = 1

C16_Witness ==
    /\ Returned("handle_connections")
    /\ \E a \in Acts : a.freed /\ a.state0 = "CLOSED"
    /\ Len(connections) = 1
    /\ connections[1].state # "CLOSED"
    /\ connections[1].touched

(* C17: within one handle_connections call every record that was in the   *)
(* list when the call started is dispatched exactly once: no record is     *)
(* dispatched twice, the records not yet dispatched are exactly those from *)
(* the loop's position to the tail, the loop's position is a linked record *)
(* (never a freed one), and when the call returns every record in the list *)
(* and the one freed last have been dispatched once.                       *)
C17_EachDispatchedOnce ==
    op = "handle_connections" =>
        /\ \A c \in Recs \cup Acts : c.visits <= 1
        /\ \A a \in Acts : a.visits = 1
        /\ iter # NULL => Linked(connections, iter)
        /\ \A c \in Recs : c.visits = 0 <=> c \in Ahead

C17_Witness ==
    /\ Returned("handle_connections")
    /\ Len(connections) = 2
    /\ connections[1].touched /\ connections[2].touched
    /\ connections[1].visits = 1 /\ connections[2].visits = 1
    /\ connections[1].state0 = "CONNECTED"

FdsOf(s) == s.rfds \cup s.wfds
Registers(c) == FdsOf(fd_set_switch(c, [rfds |-> {}, wfds |-> {}, max |-> 0 - 1]))
Own(c) == (IF c.csock = "open" THEN {c.client.sockfd} ELSE {})
          \cup (IF c.ssock = "open" THEN {c.server.sockfd} ELSE {})

(* C18: the proxy never calls recv or send on a socket of a record after   *)
(* it closed that socket, whichever of close_client_socket,                *)
(* close_server_socket and close_connection closed it and wherever in the  *)
(* loop body, and fd_set_connections never registers a closed socket: what *)
(* it registers for a record are open sockets of that record, and the sets *)
(* it fills hold open descriptors only.                                    *)
C18_NoUseAfterClose ==
    /\ \A c \in Recs \cup Acts : ~c.misused
    /\ \A c \in Recs : Registers(c) \subseteq Own(c)
    /\ op = "fd_set_connections" => FdsOf(fds) \subseteq OpenFds(connections)

C18_Witness ==
    /\ op = "handle_connections"
    /\ \E a \in Acts :
        /\ a.state0 = "CONNECTED"
        /\ Ran(a, "close_server_socket")
        /\ Ran(a, "recv_client")
        /\ a.state = "SERVER_CLOSED"
    /\ \E c \in Recs : c.state = "CLOSED" /\ c.state0 = "ACCEPTED" /\ c.io

(* C19, its safety core: a record that is not CLOSED can always be woken.  *)
(* The claim lets the reactor report registered descriptors only, so a     *)
(* record is brought to CLOSED after its client closed only if, whenever   *)
(* fd_set_connections has run, it registered a descriptor for every record *)
(* in the list that is not CLOSED, an ACCEPTED record with a full          *)
(* client.buffer included.                                                 *)
C19_EveryOpenRecordIsWatched ==
    op = "fd_set_connections" =>
        \A c \in Recs : c.state # "CLOSED" => Registers(c) \cap FdsOf(fds) # {}

(* The record the claim names: ACCEPTED, client.buffer full, nothing       *)
(* registered for it.                                                      *)
C19_Stuck ==
    /\ op = "fd_set_connections"
    /\ \E c \in Recs :
        /\ c.state = "ACCEPTED"
        /\ buffer_room(c.client.buffer) = 0
        /\ c.csock = "open"
        /\ Registers(c) = {}

(* C20: every descriptor that fd_set_connections passes to FD_SET and that *)
(* handle_connections passes to FD_ISSET is an index of an fd_set, in      *)
(* 0..FD_SETSIZE-1: the sets hold such descriptors only, and so are the    *)
(* open descriptors of every record in the list.                           *)
C20_FdsAreValidIndexes ==
    /\ op = "fd_set_connections" => FdsOf(fds) \subseteq 0..(FD_SETSIZE - 1)
    /\ \A c \in Recs : Own(c) \subseteq 0..(FD_SETSIZE - 1)

(* The descriptor the ceiling checks let through: FD_SETSIZE itself.       *)
C20_AtCeiling ==
    /\ op = "fd_set_connections"
    /\ FD_SETSIZE \in FdsOf(fds)
====
